---- MODULE Spec2Model ----
(***************************************************************************)
(* GPTQWrapper (llmcompressor/modifiers/quantization/gptq/utils/           *)
(* gptq_wrapper.py): one compression session of one layer.                 *)
(*                                                                         *)
(* Numbers.  The program computes in float32; the model computes in exact  *)
(* rational arithmetic (a number is <<numerator, denominator>> in lowest   *)
(* terms, denominator > 0), so every statement below is a statement about  *)
(* the algorithm in real arithmetic.  Indices are 0-based as in the code.  *)
(* A vector is a function on 0..n-1, a matrix a function from row index to *)
(* row vector.                                                             *)
(***************************************************************************)
EXTENDS Integers, Sequences, FiniteSets, TLC

\* ------------------------------------------------------------------ bounds
Rows == 2            \* output features of the layer (self.rows)
Columns == 3         \* input features of the layer (self.columns)
NumBits == 2         \* weight_quant_args.num_bits
MaxBatches == 2      \* add_batch calls per session
MaxCompress == 2     \* compress calls per session

RowIdx == 0 .. Rows - 1
ColIdx == 0 .. Columns - 1

\* --------------------------------------------------------------- rationals
Abs(a) == IF a < 0 THEN -a ELSE a

RECURSIVE Gcd(_, _)
Gcd(a, b) == IF b = 0 THEN a ELSE Gcd(b, a % b)

Norm(n, d) ==
    LET s == IF d < 0 THEN -1 ELSE 1
        g == Gcd(Abs(n), Abs(d))
    IN  IF n = 0 THEN <<0, 1>> ELSE <<(s * n) \div g, (s * d) \div g>>

Zero == <<0, 1>>
One == <<1, 1>>
RInt(k) == <<k, 1>>
\* the common factors are taken out before multiplying, to keep the
\* intermediate integers small
RAddOver(p, q, g) == Norm(p[1] * (q[2] \div g) + q[1] * (p[2] \div g), (p[2] \div g) * q[2])
RAdd(p, q) == RAddOver(p, q, Gcd(p[2], q[2]))
RNeg(p) == <<-p[1], p[2]>>
RSub(p, q) == RAdd(p, RNeg(q))
RMulOver(p, q, g, h) == Norm((p[1] \div g) * (q[1] \div h), (p[2] \div h) * (q[2] \div g))
RMul(p, q) ==
    IF p[1] = 0 \/ q[1] = 0 THEN Zero
    ELSE RMulOver(p, q, Gcd(Abs(p[1]), q[2]), Gcd(Abs(q[1]), p[2]))
RDiv(p, q) == RMul(p, IF q[1] < 0 THEN <<-q[2], -q[1]>> ELSE <<q[2], q[1]>>)
RLessOver(p, q, g) == p[1] * (q[2] \div g) < q[1] * (p[2] \div g)
RLess(p, q) == RLessOver(p, q, Gcd(p[2], q[2]))
RLeq(p, q) == ~RLess(q, p)
RMin(p, q) == IF RLess(q, p) THEN q ELSE p
RMax(p, q) == IF RLess(p, q) THEN q ELSE p
RAbs(p) == <<Abs(p[1]), p[2]>>
RIsZero(p) == p[1] = 0
RPos(p) == p[1] > 0

\* sum of f[lo], ..., f[hi - 1]
RECURSIVE RSum(_, _, _)
RSum(f, lo, hi) == IF lo >= hi THEN Zero ELSE RAdd(f[lo], RSum(f, lo + 1, hi))

\* torch.round: to the nearest integer, a tie to the even one
RRound(p) ==
    LET f == (2 * p[1] + p[2]) \div (2 * p[2])
        tie == (2 * p[1] + p[2]) % (2 * p[2]) = 0
    IN  IF tie /\ f % 2 # 0 THEN f - 1 ELSE f

\* ---------------------------------------------------------------- matrices
\* f itself; comparing it makes TLC tabulate the function once instead of
\* re-evaluating its defining expression at every application
Eval(f) == IF f = f THEN f ELSE f

ZeroMatrix(r, c) == Eval([i \in 0 .. r - 1 |-> [j \in 0 .. c - 1 |-> Zero]])
IntMatrix(m, r, c) == Eval([i \in 0 .. r - 1 |-> [j \in 0 .. c - 1 |-> RInt(m[i][j])]])
MatScale(m, k) == Eval([i \in DOMAIN m |-> [j \in DOMAIN m[i] |-> RMul(m[i][j], k)]])
MatAdd(a, b) == Eval([i \in DOMAIN a |-> [j \in DOMAIN a[i] |-> RAdd(a[i][j], b[i][j])]])
IsSymmetric(m) == \A i \in DOMAIN m : \A j \in DOMAIN m : m[i][j] = m[j][i]
Diag(m) == [i \in DOMAIN m |-> m[i][i]]

\* inp.matmul(inp.t()) for inp = the Columns x k matrix whose columns are the
\* k vectors of xs (a sequence of integer vectors)
Outer(xs) ==
    Eval([i \in ColIdx |-> [j \in ColIdx |->
        RSum([k \in 0 .. Len(xs) - 1 |-> RInt(xs[k + 1][i] * xs[k + 1][j])], 0, Len(xs))]])

VARIABLES
    H,             \* self.H
    n_samples,     \* self.n_samples
    sumOuter,      \* history: the sum of x * x^T over every observed vector x
    sumLead,       \* history: the sum of the leading dimensions (tmp) of the batches
    ref,           \* history: H and n of a session fed the same vectors one per call
    batches,       \* history: add_batch calls so far
    weight,        \* self.layer.weight
    scheme,        \* self.layer.quantization_scheme.weights
    offloaded,     \* is_module_offloaded(self.layer)
    staged,        \* the offloaded weight is staged on the compute device
    weight_scale,       \* the layer's persisted weight_scale
    weight_zero_point,  \* the layer's persisted weight_zero_point
    weight_g_idx,       \* the layer's persisted weight_g_idx
    calls,         \* history: compress calls so far
    passes,        \* history: compress calls that ran to the end
    last,          \* history: the latest call, its arguments and outcome
    save_pretrained,   \* per model, what model.save_pretrained evaluates to
    dtype_byte_size,   \* transformers.modeling_utils.dtype_byte_size
    saved,             \* per model, what its save directory holds
    modified           \* history: per model, modify_save_pretrained calls so far

vars == <<H, n_samples, sumOuter, sumLead, ref, batches, weight, scheme,
          offloaded, staged, weight_scale, weight_zero_point, weight_g_idx,
          calls, passes, last, save_pretrained, dtype_byte_size, saved, modified>>

\* ------------------------------------------------------------- add_batch
\* An input batch: rank 2 (tokens x columns) or rank 3 (lead x tokens x
\* columns), given by its leading dimension and the flattened vectors.
Lead(inp) == IF inp.rank = 2 THEN 1 ELSE inp.lead

\* a variant of AddBatchH that leaves out the rescaling of the old H
AddBatchHUnscaled(h, n, inp) ==
    MatAdd(h, MatScale(Outer(inp.vecs), Norm(2, n + Lead(inp))))

\* self.H *= n / (n + tmp); n += tmp; inp = sqrt(2 / n) * inp; H += inp inp^T
\* (sqrt(2/n) * x)(sqrt(2/n) * x)^T is (2/n) x x^T in real arithmetic.
AddBatchH(h, n, inp) ==
    LET tmp == Lead(inp)
        scaled == MatScale(h, Norm(n, n + tmp))
    IN  MatAdd(scaled, MatScale(Outer(inp.vecs), Norm(2, n + tmp)))

AddBatchN(n, inp) == n + Lead(inp)

RECURSIVE FeedSingly(_, _, _)
FeedSingly(h, n, xs) ==
    IF xs = <<>> THEN [H |-> h, n |-> n]
    ELSE LET one == [rank |-> 2, lead |-> 1, vecs |-> <<Head(xs)>>]
         IN  FeedSingly(AddBatchH(h, n, one), AddBatchN(n, one), Tail(xs))

\* ------------------------------------------------- factorization (177-183)
\* torch.linalg.cholesky(A) = L * sqrt(D) where A = L D L^T, L unit lower
\* triangular and D the pivots; it reads the lower triangle of A and raises
\* when a pivot is not positive.  The model keeps the square-root-free pair.
LdlPivot(A, j, L, D) ==
    RSub(A[j][j], RSum([k \in 0 .. j - 1 |-> RMul(RMul(L[j][k], L[j][k]), D[k])], 0, j))

LdlColumn(A, n, j, L, D, dj) ==
    Eval([i \in 0 .. n - 1 |->
            IF i > j
            THEN [L[i] EXCEPT ![j] =
                    RDiv(RSub(A[i][j],
                              RSum([k \in 0 .. j - 1 |->
                                       RMul(RMul(L[i][k], L[j][k]), D[k])], 0, j)),
                         dj)]
            ELSE L[i]])

RECURSIVE LdlFrom(_, _, _, _, _)
LdlWith(A, n, j, L, D, dj) ==
    IF ~RPos(dj) THEN [ok |-> FALSE, L |-> L, D |-> D]
    ELSE LdlFrom(A, n, j + 1, LdlColumn(A, n, j, L, D, dj), [D EXCEPT ![j] = dj])

LdlFrom(A, n, j, L, D) ==
    IF j = n THEN [ok |-> TRUE, L |-> L, D |-> D]
    ELSE LdlWith(A, n, j, L, D, LdlPivot(A, j, L, D))

Identity(n) == Eval([i \in 0 .. n - 1 |-> [j \in 0 .. n - 1 |-> IF i = j THEN One ELSE Zero]])

Cholesky(A) ==
    LdlFrom(A, Cardinality(DOMAIN A), 0, Identity(Cardinality(DOMAIN A)),
            [i \in DOMAIN A |-> Zero])

\* the inverse of a unit lower triangular matrix, row by row
RECURSIVE UnitLowerInverseFrom(_, _, _, _)
UnitLowerInverseFrom(L, n, i, M) ==
    IF i = n THEN M
    ELSE UnitLowerInverseFrom(L, n, i + 1,
            [M EXCEPT ![i] =
                Eval([j \in 0 .. n - 1 |->
                    IF j > i THEN Zero
                    ELSE IF j = i THEN One
                    ELSE RNeg(RSum([k \in 0 .. i - 1 |->
                                      IF k < j THEN Zero ELSE RMul(L[i][k], M[k][j])],
                                   0, i))])])

\* M^T D^-1 M
GramInverse(M, D, n) ==
    Eval([i \in 0 .. n - 1 |-> [j \in 0 .. n - 1 |->
            RSum([k \in 0 .. n - 1 |-> RDiv(RMul(M[k][i], M[k][j]), D[k])], 0, n)]])

\* torch.cholesky_inverse(L * sqrt(D)) = (L D L^T)^-1 = M^T D^-1 M, M = L^-1
CholeskyInverse(ch) ==
    GramInverse(UnitLowerInverseFrom(ch.L, Cardinality(DOMAIN ch.L), 0,
                                     Identity(Cardinality(DOMAIN ch.L))),
                ch.D, Cardinality(DOMAIN ch.L))

Transpose(L) == Eval([i \in DOMAIN L |-> [j \in DOMAIN L |-> L[j][i]]])

\* torch.linalg.cholesky(A, upper=True) = sqrt(D) * L^T.  The result is kept
\* as u = L^T (unit upper triangular); row i of the torch factor is
\* sqrt(D[i]) * u[i], so Hinv[i, j] / Hinv[i, i] = u[i][j].
CholeskyUpper(A) == Transpose(Cholesky(A).L)

Mean(v) == RDiv(RSum(v, 0, Cardinality(DOMAIN v)), RInt(Cardinality(DOMAIN v)))

AddToDiagonal(A, damp) ==
    Eval([i \in DOMAIN A |-> [j \in DOMAIN A |->
            IF i = j THEN RAdd(A[i][j], damp) ELSE A[i][j]]])

\* self.H[diag, diag] += percdamp * torch.mean(torch.diag(self.H))
Damp(A, percdamp) == AddToDiagonal(A, RMul(percdamp, Mean(Diag(A))))

\* dead = torch.diag(self.H) == 0 ; self.H[dead, dead] = 1
Dead(A) == {i \in DOMAIN A : RIsZero(A[i][i])}
MaskDead(A) ==
    Eval([i \in DOMAIN A |-> [j \in DOMAIN A |->
        IF i = j /\ RIsZero(A[i][i]) THEN One ELSE A[i][j]]])

\* ------------------------------------------------ activation ordering
Perms(n) == {p \in [0 .. n - 1 -> 0 .. n - 1] : \A i, j \in 0 .. n - 1 : p[i] = p[j] => i = j}

\* torch.argsort(v, descending=True) on rationals: every index order that
\* lists v in non-increasing order (the order among equal values is not
\* specified by torch)
ArgsortDescending(v) ==
    {p \in Perms(Cardinality(DOMAIN v)) :
        \A i \in 0 .. Cardinality(DOMAIN v) - 2 : RLeq(v[p[i + 1]], v[p[i]])}

\* torch.argsort(perm) on integers, ascending
Argsort(v) ==
    {p \in Perms(Cardinality(DOMAIN v)) :
        \A i \in 0 .. Cardinality(DOMAIN v) - 2 : v[p[i]] <= v[p[i + 1]]}

\* W[:, perm]
TakeColumns(W, perm) == Eval([r \in DOMAIN W |-> [j \in DOMAIN perm |-> W[r][perm[j]]]])
\* H[perm][:, perm]
TakeRowsColumns(A, perm) ==
    Eval([i \in DOMAIN perm |-> [j \in DOMAIN perm |-> A[perm[i]][perm[j]]]])
\* g_idx[perm]
TakeEntries(v, perm) == Eval([j \in DOMAIN perm |-> v[perm[j]]])

\* _apply_activation_ordering, for the perm that argsort returned
ApplyActivationOrdering(W, A, perm) ==
    [W |-> TakeColumns(W, perm), H |-> TakeRowsColumns(A, perm), perm |-> perm,
     invperm |-> CHOOSE p \in Argsort(perm) : TRUE]

\* -------------------------------------------- observer and fake_quantize
\* (compressed_tensors: min-max observer, integer grid of NumBits bits)
QMin == -(2 ^ (NumBits - 1))
QMax == 2 ^ (NumBits - 1) - 1
Eps == <<1, 8388608>>     \* torch.finfo(float32).eps = 2^-23

SetMin(S) == CHOOSE x \in S : \A y \in S : RLeq(x, y)
SetMax(S) == CHOOSE x \in S : \A y \in S : RLeq(y, x)
Clamp(k, lo, hi) == IF k < lo THEN lo ELSE IF k > hi THEN hi ELSE k

RawScale(mn, mx, symmetric) ==
    IF symmetric
    THEN RDiv(RMul(RInt(2), RMax(RAbs(mn), RAbs(mx))), RInt(QMax - QMin))
    ELSE RDiv(RSub(mx, mn), RInt(QMax - QMin))

FloorScale(raw) == IF RIsZero(raw) THEN Eps ELSE raw

ParamsOfScale(mn, scale, symmetric) ==
    [scale |-> scale,
     zp |-> IF symmetric THEN 0 ELSE Clamp(QMin - RRound(RDiv(mn, scale)), QMin, QMax)]

ParamsOfRange(mn, mx, symmetric) ==
    ParamsOfScale(mn, FloorScale(RawScale(mn, mx, symmetric)), symmetric)

\* scale and zero point of a set of values (the range always holds 0)
CalculateQParams(S, symmetric) ==
    ParamsOfRange(RMin(SetMin(S), Zero), RMax(SetMax(S), Zero), symmetric)

\* clamp(round(x / scale + zero_point), q_min, q_max)
QuantizeRatio(ratio, zp) ==
    IF RLeq(RInt(QMax - zp), ratio) THEN QMax
    ELSE IF RLeq(ratio, RInt(QMin - zp)) THEN QMin
    ELSE Clamp(RRound(RAdd(ratio, RInt(zp))), QMin, QMax)

\* fake_quantize of one value: quantize to the grid, then dequantize
FakeQuantize(x, scale, zp) == RMul(RInt(QuantizeRatio(RDiv(x, scale), zp) - zp), scale)

NumGroups(gs) == (Columns + gs - 1) \div gs

\* observer(W): the parameters of the whole weight, per strategy:
\* TENSOR one pair, CHANNEL one per row, GROUP one per row and column group
Observe(W, sch) ==
    Eval(CASE sch.strategy = "tensor" ->
               [r \in {0} |-> [g \in {0} |->
                    CalculateQParams({W[i][c] : i \in RowIdx, c \in ColIdx}, sch.symmetric)]]
          [] sch.strategy = "channel" ->
               [r \in RowIdx |-> [g \in {0} |->
                    CalculateQParams({W[r][c] : c \in ColIdx}, sch.symmetric)]]
          [] sch.strategy = "group" ->
               [r \in RowIdx |-> [g \in 0 .. NumGroups(sch.group_size) - 1 |->
                    CalculateQParams(
                        {W[r][c] : c \in {j \in ColIdx : j \div sch.group_size = g}},
                        sch.symmetric)]]
          [] OTHER -> [r \in {0} |-> [g \in {0} |-> [scale |-> Eps, zp |-> 0]]])

\* ------------------------------------------------------- sparsity mask
SPARSITY_THRESHOLD == <<1, 20>>
ATol == 100000000          \* torch.isclose: atol = 1e-08

\* tensor_sparsity(W): the fraction of entries that are zero
TensorSparsity(W) ==
    Norm(Cardinality({rc \in RowIdx \X ColIdx : RIsZero(W[rc[1]][rc[2]])}), Rows * Columns)

\* torch.isclose(w, 0): |w| <= 1e-08
IsCloseToZero(w) == RIsZero(w) \/ w[2] \div Abs(w[1]) >= ATol

PreserveZeros(W) == RLeq(SPARSITY_THRESHOLD, TensorSparsity(W))

\* a variant of MaskIf that never masks
MaskIfNever(W, preserve_zeros) == Eval([r \in RowIdx |-> [c \in ColIdx |-> 1]])

\* W_nz_mask as 0/1 entries; all ones stands for None
MaskIf(W, preserve_zeros) ==
    Eval([r \in RowIdx |-> [c \in ColIdx |->
        IF preserve_zeros /\ IsCloseToZero(W[r][c]) THEN 0 ELSE 1]])

NzMask(W) == MaskIf(W, PreserveZeros(W))

\* -------------------------------------------------- the blockwise scan
\* The state of the scan:  W (the working weight), W1 / Q1 (the block's
\* clone and its quantized columns, indexed by absolute column), Err (the
\* columns' Err1 entries times Hinv[i, i], i.e. w - q), qp (observer._scale
\* and observer._zero_point), used (history: the scale and zero point each
\* column was quantized with), raised (the exception raised, or "none").
\* ctx: strategy, symmetric, g_idx, u (Hinv with each row divided by its
\* diagonal entry), mask.

Supported == {"tensor", "channel", "group"}

ColumnOf(W, c) == Eval([r \in RowIdx |-> W[r][c]])

QuantizeWith(w, qp, g) ==
    [raised |-> "none", qp |-> qp,
     used |-> [r \in RowIdx |-> qp[r][g]],
     q |-> Eval([r \in RowIdx |-> FakeQuantize(w[r], qp[r][g].scale, qp[r][g].zp)])]

\* a variant of QuantizeTensor that observes each column on its own
QuantizeTensorPerColumn(st, w) ==
    [raised |-> "none", qp |-> st.qp,
     used |-> [r \in RowIdx |-> st.qp[0][0]],
     q |-> Eval([r \in RowIdx |->
            FakeQuantize(w[r], CalculateQParams({w[i] : i \in RowIdx}, TRUE).scale, 0)])]

\* lines 205-213: one pair for the whole weight, never updated
QuantizeTensor(st, w) ==
    [raised |-> "none", qp |-> st.qp,
     used |-> [r \in RowIdx |-> st.qp[0][0]],
     q |-> Eval([r \in RowIdx |-> FakeQuantize(w[r], st.qp[0][0].scale, st.qp[0][0].zp)])]

\* lines 214-226: observer._scale[column_idx] = ... indexes the rows of a
\* (rows x 1) tensor; observer._scale[:, column_idx] indexes its dimension
\* of size 1
QuantizeChannel(st, ctx, c, w) ==
    IF c >= Rows \/ c >= 1
    THEN [raised |-> "IndexError", qp |-> st.qp, q |-> w]
    ELSE QuantizeWith(w,
            Eval([r \in RowIdx |->
                    IF r = c
                    THEN [g \in {0} |-> CalculateQParams({w[i] : i \in RowIdx}, ctx.symmetric)]
                    ELSE st.qp[r]]),
            c)

\* lines 237-239: the parameters of column c's group, from the working W
GroupParams(W, qp, g_idx, g, symmetric) ==
    Eval([r \in RowIdx |->
            [qp[r] EXCEPT ![g] =
                CalculateQParams({W[r][j] : j \in {k \in ColIdx : g_idx[k] = g}}, symmetric)]])

\* lines 227-256
QuantizeGroup(st, ctx, c, w) ==
    QuantizeWith(w, GroupParams(st.W, st.qp, ctx.g_idx, ctx.g_idx[c], ctx.symmetric),
                 ctx.g_idx[c])

\* a variant of QuantizeColumn that treats an unknown strategy as TENSOR
QuantizeColumnLenient(st, ctx, c, w) ==
    CASE ctx.strategy = "channel" -> QuantizeChannel(st, ctx, c, w)
      [] ctx.strategy = "group" -> QuantizeGroup(st, ctx, c, w)
      [] OTHER -> QuantizeTensor(st, w)

\* lines 205-261: the quantized column q and the observer's parameters
QuantizeColumn(st, ctx, c, w) ==
    CASE ctx.strategy = "tensor" -> QuantizeTensor(st, w)
      [] ctx.strategy = "channel" -> QuantizeChannel(st, ctx, c, w)
      [] ctx.strategy = "group" -> QuantizeGroup(st, ctx, c, w)
      [] OTHER -> [raised |-> "ValueError", qp |-> st.qp, q |-> w]

\* lines 279-284: W1[:, i:] -= err1 (x) Hinv1[i, i:] (masked), inside the block
PropagateColumn(W1, err, ctx, c, i2) ==
    Eval([r \in RowIdx |-> [j \in ColIdx |->
        IF j >= c /\ j < i2
        THEN RSub(W1[r][j], RMul(RMul(err[r], ctx.u[c][j]), RInt(ctx.mask[r][j])))
        ELSE W1[r][j]]])

SetColumn(M, c, v) == Eval([r \in RowIdx |-> [M[r] EXCEPT ![c] = v[r]]])

\* lines 276-285, given the column's error w - q
RecordColumn(st, ctx, c, i2, qc, err) ==
    [st EXCEPT !.qp = qc.qp,
               !.used = SetColumn(st.used, c, qc.used),
               !.Q1 = SetColumn(st.Q1, c, qc.q),
               !.W1 = PropagateColumn(st.W1, err, ctx, c, i2),
               !.Err = SetColumn(st.Err, c, err)]

AfterQuantize(st, ctx, c, i2, w, qc) ==
    IF qc.raised # "none" THEN [st EXCEPT !.raised = qc.raised]
    ELSE RecordColumn(st, ctx, c, i2, qc, Eval([r \in RowIdx |-> RSub(w[r], qc.q[r])]))

QuantizeAndRecord(st, ctx, c, i2, w) ==
    AfterQuantize(st, ctx, c, i2, w, QuantizeColumn(st, ctx, c, w))

\* lines 199-285 for column c of the block that ends before i2
ColumnStep(st, ctx, c, i2) ==
    IF st.raised # "none" THEN st
    ELSE QuantizeAndRecord(st, ctx, c, i2, ColumnOf(st.W1, c))

RECURSIVE ColumnLoop(_, _, _, _)
ColumnLoop(st, ctx, c, i2) ==
    IF c >= i2 THEN st ELSE ColumnLoop(ColumnStep(st, ctx, c, i2), ctx, c + 1, i2)

\* lines 289-297: W[:, i1:i2] = Q1 ; W[:, i2:] -= Err1 Hinv[i1:i2, i2:] (masked)
PropagateBlock(st, ctx, i1, i2) ==
    Eval([r \in RowIdx |-> [j \in ColIdx |->
        IF j >= i1 /\ j < i2 THEN st.Q1[r][j]
        ELSE IF j >= i2
        THEN RSub(st.W[r][j],
                  RMul(RSum([i \in i1 .. i2 - 1 |-> RMul(st.Err[r][i], ctx.u[i][j])], i1, i2),
                       RInt(ctx.mask[r][j])))
        ELSE st.W[r][j]]])

Min2(a, b) == IF a < b THEN a ELSE b

\* lines 186-297
RECURSIVE BlockLoop(_, _, _, _)
BlockEnd(done, ctx, i1, i2, blocksize) ==
    IF done.raised # "none" THEN done
    ELSE BlockLoop([done EXCEPT !.W = PropagateBlock(done, ctx, i1, i2)], ctx, i2, blocksize)

BlockLoop(st, ctx, i1, blocksize) ==
    IF i1 >= Columns \/ st.raised # "none" THEN st
    ELSE BlockEnd(ColumnLoop([st EXCEPT !.W1 = st.W, !.Q1 = ZeroMatrix(Rows, Columns)],
                             ctx, i1, Min2(i1 + blocksize, Columns)),
                  ctx, i1, Min2(i1 + blocksize, Columns), blocksize)

\* ------------------------------------------------------------ compress
UsesOrdering(sch) == sch.strategy = "group" /\ sch.actorder \in {"group", "weight"}

\* line 127-130: arange(columns) // group_size
GroupIndexOf(columns, gs) == [c \in 0 .. columns - 1 |-> c \div gs]
GroupIndex(gs) == GroupIndexOf(Columns, gs)

\* a variant of ZeroColumns that keeps the dead columns' values
ZeroColumnsKept(W, dead) == W

\* W[:, dead] = 0
ZeroColumns(W, dead) ==
    Eval([r \in RowIdx |-> [c \in ColIdx |-> IF c \in dead THEN Zero ELSE W[r][c]]])

\* a variant of RestoreOrder that permutes by perm again
RestoreOrderByPerm(W, perm, invperm) == TakeColumns(W, perm)

\* lines 303-311: W = W[:, invperm]
RestoreOrder(W, perm, invperm) == TakeColumns(W, invperm)

\* a variant of PersistedGroupIndex that indexes by perm
PersistedGroupIndexByPerm(g_idx, perm, invperm) == TakeEntries(g_idx, perm)

\* line 311: g_idx = g_idx[invperm]
PersistedGroupIndex(g_idx, perm, invperm) == TakeEntries(g_idx, invperm)

\* self.H as a matrix.  form "acc": the accumulated matrix m.  form "chol":
\* the upper factor left by an earlier compress, kept as u; what the
\* factorization reads of it, its lower triangle, is a positive diagonal.
MatrixOf(h) == IF h.form = "acc" THEN h.m ELSE Identity(Columns)

\* lines 125-153: the weight and Hessian in scan order
Ordered(w0, h, sch, perm) ==
    IF UsesOrdering(sch) THEN ApplyActivationOrdering(w0, MatrixOf(h), perm)
    ELSE [W |-> w0, H |-> MatrixOf(h), perm |-> perm, invperm |-> perm]

\* lines 125-171: what the scan starts from
Prepared(w0, h, sch, ord) ==
    [Wp |-> ord.W,
     Ap |-> ord.H,
     perm |-> ord.perm,
     invperm |-> ord.invperm,
     ordered |-> UsesOrdering(sch),
     \* actorder WEIGHT observes before it permutes, GROUP after
     qp0 |-> IF UsesOrdering(sch) /\ sch.actorder = "weight"
             THEN Observe(w0, sch) ELSE Observe(ord.W, sch),
     g_idx |-> IF UsesOrdering(sch) /\ sch.actorder = "weight"
               THEN TakeEntries(GroupIndex(sch.group_size), ord.perm)
               ELSE GroupIndex(sch.group_size),
     preserve_zeros |-> PreserveZeros(ord.W),
     mask |-> NzMask(ord.W),
     dead |-> IF h.form = "acc" THEN Dead(ord.H) ELSE {}]

\* lines 169-183 on self.H
Factorized(damped, ch) ==
    IF ch.ok
    THEN [ok |-> TRUE, u |-> CholeskyUpper(CholeskyInverse(ch)),
          damped |-> [form |-> "acc", m |-> damped]]
    ELSE [ok |-> FALSE, u |-> Identity(Columns), damped |-> [form |-> "acc", m |-> damped]]

FactorizeDamped(damped) == Factorized(damped, Cholesky(damped))

Factorize(h, A, percdamp) ==
    IF h.form = "chol"
    THEN [ok |-> TRUE, u |-> Identity(Columns), damped |-> h]
    ELSE FactorizeDamped(Damp(MaskDead(A), percdamp))

Seen(prep) ==
    [perm |-> prep.perm, invperm |-> prep.invperm, ordered |-> prep.ordered,
     dead |-> prep.dead, preserve_zeros |-> prep.preserve_zeros, mask |-> prep.mask,
     g_idx |-> prep.g_idx]

\* lines 299-325: restore the order and commit
Outcome(sch, prep, fac, fin) ==
    IF fin.raised # "none"
    THEN [result |-> fin.raised, H |-> [form |-> "chol", u |-> fac.u], seen |-> Seen(prep)]
    ELSE [result |-> "ok", H |-> [form |-> "chol", u |-> fac.u], seen |-> Seen(prep),
          Err |-> fin.Err,
          used |-> fin.used,
          weight |-> IF prep.ordered THEN RestoreOrder(fin.W, prep.perm, prep.invperm)
                     ELSE fin.W,
          qp |-> fin.qp,
          g_idx |-> IF prep.ordered /\ sch.actorder = "group"
                    THEN PersistedGroupIndex(prep.g_idx, prep.perm, prep.invperm)
                    ELSE <<>>]

ScanStart(W, qp0) ==
    [W |-> W, W1 |-> W, Q1 |-> ZeroMatrix(Rows, Columns), Err |-> ZeroMatrix(Rows, Columns),
     qp |-> qp0, used |-> [r \in RowIdx |-> [c \in ColIdx |-> [scale |-> Zero, zp |-> 0]]],
     raised |-> "none"]

Scan(sch, prep, fac, blocksize) ==
    IF ~fac.ok
    THEN [result |-> "LinAlgError", H |-> fac.damped, seen |-> Seen(prep)]
    ELSE Outcome(sch, prep, fac,
            BlockLoop(ScanStart(ZeroColumns(prep.Wp, prep.dead), prep.qp0),
                      [strategy |-> sch.strategy, symmetric |-> sch.symmetric,
                       g_idx |-> prep.g_idx, u |-> fac.u, mask |-> prep.mask],
                      0, blocksize))

RunPrepared(h, sch, blocksize, percdamp, prep) ==
    Scan(sch, prep, Factorize(h, prep.Ap, percdamp), blocksize)

\* lines 103-330 for a layer that has a weight quantization scheme; perm is
\* what argsort returns when activation ordering is used.  The result names
\* the outcome, the new self.H, the committed weight and parameters, and what
\* the scan saw (in scan order).
CompressRun(w0, h, sch, blocksize, percdamp, perm) ==
    RunPrepared(h, sch, blocksize, percdamp, Prepared(w0, h, sch, Ordered(w0, h, sch, perm)))

\* --------------------------------------------------------------- inputs
\* weight rows: a dense one, one with zeros on the even columns, a mixed one
RowRamp == [c \in ColIdx |-> c + 1]
RowSparse == [c \in ColIdx |-> IF c % 2 = 0 THEN 0 ELSE -2]
RowMixed == [c \in ColIdx |-> IF c = 0 THEN -3 ELSE IF c = Columns - 1 THEN 0 ELSE 2]
WeightRows == <<RowRamp, RowMixed, RowSparse>>
Weights == {IntMatrix([r \in RowIdx |-> WeightRows[((r + k) % 3) + 1]], Rows, Columns) :
               k \in 0 .. 2}

GroupSizes == {g \in 1 .. Columns : Columns % g = 0}
Unquantized ==
    [configured |-> FALSE, strategy |-> "none", actorder |-> "none",
     group_size |-> Columns, symmetric |-> TRUE]
Schemes ==
    {Unquantized}
    \cup {[configured |-> TRUE, strategy |-> "tensor", actorder |-> "none",
           group_size |-> Columns, symmetric |-> sym] : sym \in BOOLEAN}
    \cup {[configured |-> TRUE, strategy |-> s, actorder |-> "none",
           group_size |-> Columns, symmetric |-> TRUE] : s \in {"channel", "token"}}
    \cup {[configured |-> TRUE, strategy |-> "group", actorder |-> a,
           group_size |-> g, symmetric |-> TRUE] :
            a \in {"none", "group", "weight"}, g \in GroupSizes}

\* input vectors
Unit(k) == [c \in ColIdx |-> IF c = k THEN 1 ELSE 0]
VecTail == [c \in ColIdx |-> IF c = 0 THEN 0 ELSE Columns - c]
\* a 2-D batch of all unit vectors, and a 2-D batch of one vector whose
\* first feature is never active
BatchInputs ==
    {[rank |-> 2, lead |-> Columns, vecs |-> [k \in 1 .. Columns |-> Unit(k - 1)]],
     [rank |-> 2, lead |-> 1, vecs |-> <<VecTail>>]}

BlockSizes == 1 .. Columns
PercDamps == {Zero, One}
IdentityPerm == [c \in ColIdx |-> c]

NoParams == [r \in {0} |-> [g \in {0} |-> Zero]]
ScaleOf(qp) == [r \in DOMAIN qp |-> [g \in DOMAIN qp[r] |-> qp[r][g].scale]]
ZeroPointOf(qp) == [r \in DOMAIN qp |-> [g \in DOMAIN qp[r] |-> qp[r][g].zp]]

\* ------------------------------------------------ modify_save_pretrained
NumModels == 2
MaxModify == 2
Models == 1 .. NumModels

\* A callable is [kind, depth, attrs]: kind "method" is a bound method (it has
\* __self__ and __func__), kind "function" a plain function (it has neither);
\* depth counts the save_pretrained_wrapper layers around
\* PreTrainedModel.save_pretrained; attrs holds the attribute names set on the
\* underlying function.
\* model.save_pretrained of a model whose class defines the method and whose
\* instance has no attribute of that name
BoundSavePretrained == [kind |-> "method", depth |-> 0, attrs |-> {}]

\* getattr(f, name, False), for attributes that are only ever set to True
GetAttr(f, name) == name \in f.attrs

\* the wrapper built at lines 42-144: functools.wraps copies the attributes
\* of the wrapped function and sets __wrapped__, line 144 sets _overriden
WrapperOf(f) ==
    [kind |-> "function", depth |-> f.depth + 1,
     attrs |-> f.attrs \cup {"__wrapped__", "_overriden"}]

\* save_pretrained_compressed(save_pretrained_method): the value returned or
\* the exception raised, and whether line 31 found the marker
SavePretrainedCompressed(f) ==
    IF GetAttr(f, "_overridden")
    THEN [raised |-> "none", value |-> f, detected |-> TRUE]
    ELSE IF f.kind # "method"
         THEN [raised |-> "AttributeError", value |-> f, detected |-> FALSE]
         ELSE [raised |-> "none", value |-> WrapperOf(f), detected |-> FALSE]

\* the state dict the wrapper works on (lines 77-78): the one passed in, or
\* the model's own
StateDicts == {"none", "empty", "dense"}
StateDictOf(state_dict) == IF state_dict = "none" THEN "dense" ELSE state_dict

\* original_save_pretrained.__get__(model, model_class)(save_directory,
\* state_dict=...): the directory holds that state dict and a fresh config
OriginalSavePretrained(state_dict) == [state_dict |-> state_dict, config |-> "plain"]

\* compressor.update_config(save_directory)
UpdateConfig(dir) == [dir EXCEPT !.config = "compression"]

NotSaved == [state_dict |-> "none", config |-> "none"]

\* the directory after save_pretrained_wrapper (lines 76-142); has_compressor
\* is whether ModelCompressor.from_pretrained_model returned a compressor for
\* the sparsity config and quantization format of lines 87-119
SaveDirectory(dir, state_dict, save_compressed, has_compressor) ==
    IF ~save_compressed THEN OriginalSavePretrained(StateDictOf(state_dict))
    ELSE IF ~has_compressor THEN OriginalSavePretrained(StateDictOf(state_dict))
    ELSE IF StateDictOf(state_dict) # "empty"
         THEN UpdateConfig(OriginalSavePretrained("compressed"))
         ELSE dir

\* ----------------------------------------------------------------- Init
\* __init__: H = zeros, n_samples = 0
Init ==
    /\ H = [form |-> "acc", m |-> ZeroMatrix(Columns, Columns)]
    /\ n_samples = 0
    /\ sumOuter = ZeroMatrix(Columns, Columns)
    /\ sumLead = 0
    /\ ref = [H |-> ZeroMatrix(Columns, Columns), n |-> 0]
    /\ batches = 0
    /\ weight \in Weights
    /\ scheme \in Schemes
    /\ offloaded \in BOOLEAN
    /\ staged = FALSE
    /\ weight_scale = NoParams
    /\ weight_zero_point = NoParams
    /\ weight_g_idx = <<>>
    /\ calls = 0
    /\ passes = 0
    /\ last = [op |-> "init", result |-> "ok"]
    /\ save_pretrained = [m \in Models |-> BoundSavePretrained]
    /\ dtype_byte_size = "dtype_byte_size"
    /\ saved = [m \in Models |-> NotSaved]
    /\ modified = [m \in Models |-> 0]

\* -------------------------------------------------------------- actions
layerVars == <<weight, scheme, offloaded, staged, weight_scale, weight_zero_point,
               weight_g_idx, calls, passes>>
accVars == <<n_samples, sumOuter, sumLead, ref, batches>>
saveVars == <<save_pretrained, dtype_byte_size, saved, modified>>

\* add_batch(inp, out), called while the session accumulates; limit is the
\* number of calls the session makes
AddBatch(inp, limit) ==
    /\ batches < limit
    /\ calls = 0
    /\ H.form = "acc"
    /\ H' = [form |-> "acc", m |-> AddBatchH(H.m, n_samples, inp)]
    /\ n_samples' = AddBatchN(n_samples, inp)
    /\ sumOuter' = MatAdd(sumOuter, Outer(inp.vecs))
    /\ sumLead' = sumLead + Lead(inp)
    /\ ref' = FeedSingly(ref.H, ref.n, inp.vecs)
    /\ batches' = batches + 1
    /\ last' = [op |-> "add_batch", result |-> "ok"]
    /\ UNCHANGED layerVars
    /\ UNCHANGED saveVars

Before ==
    [weight |-> weight, H |-> H, weight_scale |-> weight_scale,
     weight_zero_point |-> weight_zero_point, weight_g_idx |-> weight_g_idx,
     passes |-> passes, staged |-> staged]

\* compress(blocksize, percdamp) on a layer without a weight scheme: skipped
CompressSkip ==
    /\ calls < MaxCompress
    /\ ~scheme.configured
    /\ calls' = calls + 1
    /\ last' = [op |-> "compress", result |-> "skipped", before |-> Before]
    /\ UNCHANGED <<H, weight, scheme, offloaded, staged, weight_scale, weight_zero_point,
                   weight_g_idx, passes>>
    /\ UNCHANGED accVars
    /\ UNCHANGED saveVars

\* the effect of a compress call whose run ended as out: lines 322-330 when
\* it ran to the end, and nothing but self.H and the staging when it raised
Commit(out, blocksize, percdamp) ==
    /\ H' = out.H
    /\ weight' = IF out.result = "ok" THEN out.weight ELSE weight
    /\ weight_scale' = IF out.result = "ok" THEN ScaleOf(out.qp) ELSE weight_scale
    /\ weight_zero_point' = IF out.result = "ok" THEN ZeroPointOf(out.qp)
                            ELSE weight_zero_point
    /\ weight_g_idx' = IF out.result = "ok" /\ out.seen.ordered /\ scheme.actorder = "group"
                       THEN out.g_idx ELSE weight_g_idx
    \* pre_forward (line 105) stages the weight in, post_forward (line 330) out
    /\ staged' = IF offloaded THEN out.result # "ok" ELSE staged
    /\ passes' = IF out.result = "ok" THEN passes + 1 ELSE passes
    /\ last' = [op |-> "compress", result |-> out.result, before |-> Before,
                blocksize |-> blocksize, percdamp |-> percdamp, seen |-> out.seen,
                Err |-> IF out.result = "ok" THEN out.Err ELSE ZeroMatrix(Rows, Columns),
                used |-> IF out.result = "ok" THEN out.used ELSE <<>>]

\* compress(blocksize, percdamp) on a layer with a weight scheme.  A call
\* after free(), and a further call on a layer that orders by activation
\* (its permutation and factorization would read the irrational entries of
\* the factor the earlier call left in self.H), are not modelled.
Compress(blocksize, percdamp) ==
    /\ calls < MaxCompress
    /\ scheme.configured
    /\ H.form = "acc" \/ (H.form = "chol" /\ ~UsesOrdering(scheme))
    /\ \E perm \in IF UsesOrdering(scheme) THEN ArgsortDescending(Diag(H.m))
                   ELSE {IdentityPerm} :
         Commit(CompressRun(weight, H, scheme, blocksize, percdamp, perm),
                blocksize, percdamp)
    /\ calls' = calls + 1
    /\ UNCHANGED <<scheme, offloaded>>
    /\ UNCHANGED accVars
    /\ UNCHANGED saveVars

\* free(): delattr(self, "H")
Free ==
    /\ H.form # "freed"
    /\ H' = [form |-> "freed"]
    /\ last' = [op |-> "free", result |-> "ok"]
    /\ UNCHANGED layerVars
    /\ UNCHANGED accVars
    /\ UNCHANGED saveVars

Next ==
    \/ \E inp \in BatchInputs : AddBatch(inp, MaxBatches)
    \/ CompressSkip
    \/ \E b \in BlockSizes, p \in PercDamps : Compress(b, p)
    \/ Free

Spec == Init /\ [][Next]_vars

\* ------------------------------------------- the accumulation on its own
\* add_batch calls on a fresh session, with inputs of both ranks and of
\* several leading dimensions
MaxAccBatches == 4

VecPair == [c \in ColIdx |-> IF c = 0 THEN 1 ELSE IF c = 1 THEN 2 ELSE 0]
AccInputs ==
    {[rank |-> 2, lead |-> 1, vecs |-> <<Unit(0)>>],
     [rank |-> 2, lead |-> 2, vecs |-> <<VecPair, Unit(Columns - 1)>>],
     [rank |-> 3, lead |-> 1, vecs |-> <<VecTail, VecPair>>],
     [rank |-> 3, lead |-> 2, vecs |-> <<Unit(0), VecTail>>],
     [rank |-> 3, lead |-> 2, vecs |-> <<VecPair, VecPair, Unit(0), VecTail>>]}

IdleWeight == CHOOSE w \in Weights : TRUE

InitAcc ==
    /\ Init
    /\ weight = IdleWeight
    /\ scheme = Unquantized
    /\ ~offloaded

NextAcc == \E inp \in AccInputs : AddBatch(inp, MaxAccBatches)

SpecAcc == InitAcc /\ [][NextAcc]_vars

\* --------------------------------- the activation ordering on its own
\* lines 132-137 and 308-314 (strategy GROUP, actorder GROUP) for a Hessian
\* diagonal drawn from OrderValues, on OrderLen columns
OrderLen == 4
OrderValues == {<<1, 10>>, <<1, 5>>, <<1, 2>>, <<9, 10>>}
OrderIdx == 0 .. OrderLen - 1
OrderGroupSizes == {g \in 1 .. OrderLen : OrderLen % g = 0}

DiagonalMatrix(d) ==
    [i \in DOMAIN d |-> [j \in DOMAIN d |-> IF i = j THEN d[i] ELSE Zero]]

InitOrder ==
    /\ H = [form |-> "acc", m |-> ZeroMatrix(Columns, Columns)]
    /\ n_samples = 0
    /\ sumOuter = ZeroMatrix(Columns, Columns)
    /\ sumLead = 0
    /\ ref = [H |-> ZeroMatrix(Columns, Columns), n |-> 0]
    /\ batches = 0
    /\ weight = IdleWeight
    /\ scheme = Unquantized
    /\ offloaded = FALSE
    /\ staged = FALSE
    /\ weight_scale = NoParams
    /\ weight_zero_point = NoParams
    /\ weight_g_idx = <<>>
    /\ calls = 0
    /\ passes = 0
    /\ \E d \in [OrderIdx -> OrderValues], g \in OrderGroupSizes :
         last = [op |-> "input", diag |-> d, group_size |-> g]
    /\ save_pretrained = [m \in Models |-> BoundSavePretrained]
    /\ dtype_byte_size = "dtype_byte_size"
    /\ saved = [m \in Models |-> NotSaved]
    /\ modified = [m \in Models |-> 0]

\* what the call found, and what it persists as weight_g_idx
Ordering(d, gs, ord) ==
    [op |-> "order", diag |-> d, group_size |-> gs, perm |-> ord.perm,
     invperm |-> ord.invperm, W |-> ord.W,
     g_idx |-> PersistedGroupIndex(GroupIndexOf(Cardinality(DOMAIN d), gs),
                                   ord.perm, ord.invperm)]

Order ==
    /\ last.op = "input"
    /\ \E perm \in ArgsortDescending(last.diag) :
         last' = Ordering(last.diag, last.group_size,
                    ApplyActivationOrdering([r \in {0} |-> [c \in OrderIdx |-> RInt(c)]],
                                            DiagonalMatrix(last.diag), perm))
    /\ UNCHANGED <<H, layerVars, accVars, saveVars>>

NextOrder == Order

SpecOrder == InitOrder /\ [][NextOrder]_vars

\* --------------------------------- replacing and calling save_pretrained
\* modify_save_pretrained and the wrapper it installs, on models that no
\* GPTQ session is touching
InitSave ==
    /\ Init
    /\ weight = IdleWeight
    /\ scheme = Unquantized
    /\ ~offloaded

\* modify_save_pretrained(model): line 148 evaluates model.save_pretrained,
\* calls save_pretrained_compressed on it and, unless that raised, assigns
\* the result to the instance attribute
ModifySavePretrained(m) ==
    /\ modified[m] < MaxModify
    /\ save_pretrained' =
         IF SavePretrainedCompressed(save_pretrained[m]).raised = "none"
         THEN [save_pretrained EXCEPT ![m] = SavePretrainedCompressed(save_pretrained[m]).value]
         ELSE save_pretrained
    /\ modified' = [modified EXCEPT ![m] = modified[m] + 1]
    /\ last' = [op |-> "modify_save_pretrained", model |-> m,
                before |-> save_pretrained[m],
                raised |-> SavePretrainedCompressed(save_pretrained[m]).raised,
                detected |-> SavePretrainedCompressed(save_pretrained[m]).detected]
    /\ UNCHANGED <<dtype_byte_size, saved>>
    /\ UNCHANGED <<H, layerVars, accVars>>

\* model.save_pretrained(save_directory, ...) once the wrapper is installed:
\* save_pretrained_wrapper, lines 74-142
SavePretrainedWrapper(m, state_dict, save_compressed, has_compressor) ==
    /\ save_pretrained[m].depth > 0
    /\ dtype_byte_size' = "new_dtype_byte_size"
    /\ saved' = [saved EXCEPT
                   ![m] = SaveDirectory(saved[m], state_dict, save_compressed, has_compressor)]
    /\ last' = [op |-> "save_pretrained", model |-> m, state_dict |-> state_dict,
                save_compressed |-> save_compressed, has_compressor |-> has_compressor,
                raised |-> "none"]
    /\ UNCHANGED <<save_pretrained, modified>>
    /\ UNCHANGED <<H, layerVars, accVars>>

NextSave ==
    \/ \E m \in Models : ModifySavePretrained(m)
    \/ \E m \in Models, sd \in StateDicts, sc \in BOOLEAN, hc \in BOOLEAN :
         SavePretrainedWrapper(m, sd, sc, hc)

SpecSave == InitSave /\ [][NextSave]_vars

\* ---------------------------------------------------------- properties
Errors == {"ValueError", "LinAlgError", "IndexError"}

\* the latest call was a compress on a layer with a weight scheme
Ran == last.op = "compress" /\ last.result # "skipped"
\* ... that ran to the end and committed
Committed == last.op = "compress" /\ last.result = "ok"

IsDiagonal(A) == \A i \in DOMAIN A : \A j \in DOMAIN A : i # j => RIsZero(A[i][j])
IsPositiveDiagonal(A) == IsDiagonal(A) /\ \A i \in DOMAIN A : RPos(A[i][i])

\* the 0-based vector of a sequence
Vec(seq) == [i \in 0 .. Len(seq) - 1 |-> seq[i + 1]]

\* C1: a compress call with any blocksize ends as the call with blocksize =
\* Columns (one block) on the same weight, Hessian, scheme and ordering
\* would: the same outcome and, when it commits, the same weight.
C1_BlockSizeInvariance ==
    (Ran /\ scheme.strategy \in Supported) =>
        (CompressRun(last.before.weight, last.before.H, scheme, Columns, last.percdamp,
                     last.seen.perm).result = last.result
         /\ (last.result = "ok" =>
                CompressRun(last.before.weight, last.before.H, scheme, Columns,
                            last.percdamp, last.seen.perm).weight = weight))

\* C2: a compress call made after a compress call has run to the end is
\* rejected with an error and leaves the weight and the persisted scale and
\* zero point as they were.
C2_SecondCompressRejected ==
    (Ran /\ last.before.passes >= 1) =>
        /\ last.result \in Errors
        /\ weight = last.before.weight
        /\ weight_scale = last.before.weight_scale
        /\ weight_zero_point = last.before.weight_zero_point

\* C3: every compress call on an offloaded layer with a weight scheme
\* returns with the weight staged out, also when it ends by raising.
C3_StageOutGuaranteed == (Ran /\ offloaded) => ~staged

\* C4: a compress call on a layer whose scheme names a strategy other than
\* TENSOR, CHANNEL and GROUP raises, and the weight and the persisted
\* scale, zero point and group index are what they were before the call.
C4_UnsupportedStrategyFatal ==
    (Ran /\ scheme.strategy \notin Supported) =>
        /\ last.result \in Errors
        /\ weight = last.before.weight
        /\ weight_scale = last.before.weight_scale
        /\ weight_zero_point = last.before.weight_zero_point
        /\ weight_g_idx = last.before.weight_g_idx

C4_Witness ==
    /\ Ran /\ scheme.strategy = "token" /\ last.result = "ValueError"
    /\ \E c \in ColIdx : RIsZero(last.before.H.m[c][c])

\* C5: when a compress call commits, every column c whose Hessian diagonal
\* entry was 0 at the start of the call is all zeros in the committed weight,
\* and the error w - q recorded where c was quantized is zero, so nothing is
\* propagated from c to another column.
C5_DeadColumnNeutral ==
    (Committed /\ last.before.H.form = "acc") =>
        \A c \in ColIdx :
            RIsZero(last.before.H.m[c][c]) =>
                \A r \in RowIdx :
                    /\ weight[r][c] = Zero
                    /\ last.Err[r][last.seen.invperm[c]] = Zero

C5_Witness ==
    /\ Committed /\ last.before.H.form = "acc"
    /\ last.blocksize < Columns
    /\ \E c \in ColIdx :
         /\ RIsZero(last.before.H.m[c][c])
         /\ \E r \in RowIdx : ~RIsZero(last.before.weight[r][c])
    /\ \E c \in ColIdx :
         /\ ~RIsZero(last.before.H.m[c][c])
         /\ \E r \in RowIdx : ~RIsZero(last.Err[r][last.seen.invperm[c]])

\* C6: when a compress call commits and the sparsity mask was active, every
\* entry of the weight that was zero before the call is zero after it.
C6_SparsityPreserved ==
    (Committed /\ last.seen.preserve_zeros) =>
        \A r \in RowIdx : \A c \in ColIdx :
            RIsZero(last.before.weight[r][c]) => RIsZero(weight[r][c])

C6_Witness ==
    /\ Committed /\ last.seen.preserve_zeros /\ last.seen.ordered
    /\ last.before.H.form = "acc" /\ ~IsDiagonal(last.before.H.m)
    /\ last.blocksize < Columns
    /\ \E r \in RowIdx : \E c \in ColIdx :
         RIsZero(last.before.weight[r][c]) /\ ~RIsZero(last.before.H.m[c][c])
    /\ weight # last.before.weight

\* C7: in a compress call that orders by activation, invperm[perm[i]] = i
\* for every i; permuting the columns of the weight by perm and restoring
\* them returns the weight; and when the Hessian is diagonal and positive
\* (no error is propagated, ties included), the error recorded at the
\* position where column c was quantized is the difference between the
\* original and the committed column c.
C7_PermutationRoundTrip ==
    (Ran /\ last.seen.ordered) =>
        /\ \A i \in ColIdx : last.seen.invperm[last.seen.perm[i]] = i
        /\ RestoreOrder(TakeColumns(last.before.weight, last.seen.perm),
                        last.seen.perm, last.seen.invperm) = last.before.weight
        /\ (last.result = "ok" /\ IsPositiveDiagonal(last.before.H.m)) =>
              \A r \in RowIdx : \A c \in ColIdx :
                  RSub(last.before.weight[r][c], weight[r][c])
                      = last.Err[r][last.seen.invperm[c]]

C7_Witness ==
    /\ Committed /\ last.seen.ordered
    /\ IsPositiveDiagonal(last.before.H.m)
    /\ last.seen.perm[last.seen.perm[0]] # 0
    /\ weight # last.before.weight

\* C8: with strategy GROUP and actorder GROUP, perm is a permutation that
\* lists the columns by non-increasing Hessian diagonal, and the persisted
\* group index of column c is invperm[c] \div group_size; for group_size 2
\* and diagonal [0.1, 0.9, 0.5, 0.2], perm is [1, 2, 3, 0] and the persisted
\* map is [1, 0, 0, 1], not the identity map [0, 0, 1, 1].
ExampleDiagonal == Vec(<< <<1, 10>>, <<9, 10>>, <<1, 2>>, <<1, 5>> >>)

C8_GroupOrdering ==
    (last.op = "order") =>
        /\ \A c \in DOMAIN last.diag : \E i \in DOMAIN last.perm : last.perm[i] = c
        /\ \A i \in DOMAIN last.perm : \A j \in DOMAIN last.perm :
              i < j => RLeq(last.diag[last.perm[j]], last.diag[last.perm[i]])
        /\ \A c \in DOMAIN last.diag :
              last.g_idx[c] = last.invperm[c] \div last.group_size
        /\ (last.diag = ExampleDiagonal /\ last.group_size = 2) =>
              /\ last.perm = Vec(<<1, 2, 3, 0>>)
              /\ last.g_idx = Vec(<<1, 0, 0, 1>>)
              /\ last.g_idx # GroupIndexOf(4, 2)

C8_Witness ==
    last.op = "order" /\ last.diag = ExampleDiagonal /\ last.group_size = 2

\* C9: when a first compress call with strategy TENSOR commits and the
\* Hessian was diagonal with positive diagonal, the committed weight is the
\* entry-by-entry fake quantization of the original weight with the one
\* scale and zero point observed on the original weight, which are the
\* persisted ones, and each recorded error is that entry's rounding error.
C9_TensorIndependentColumns ==
    (Committed /\ scheme.strategy = "tensor" /\ last.before.H.form = "acc"
       /\ IsPositiveDiagonal(last.before.H.m)) =>
        \A r \in RowIdx : \A c \in ColIdx :
            /\ weight[r][c] =
                 FakeQuantize(last.before.weight[r][c],
                    CalculateQParams({last.before.weight[i][j] : i \in RowIdx, j \in ColIdx},
                                     scheme.symmetric).scale,
                    CalculateQParams({last.before.weight[i][j] : i \in RowIdx, j \in ColIdx},
                                     scheme.symmetric).zp)
            /\ weight_scale[0][0] =
                 CalculateQParams({last.before.weight[i][j] : i \in RowIdx, j \in ColIdx},
                                  scheme.symmetric).scale
            /\ weight_zero_point[0][0] =
                 CalculateQParams({last.before.weight[i][j] : i \in RowIdx, j \in ColIdx},
                                  scheme.symmetric).zp
            /\ last.Err[r][c] = RSub(last.before.weight[r][c], weight[r][c])

C9_Witness ==
    /\ Committed /\ scheme.strategy = "tensor" /\ last.before.H.form = "acc"
    /\ IsPositiveDiagonal(last.before.H.m)
    /\ last.blocksize < Columns
    /\ weight # last.before.weight

\* C10 as written, its part about one state: n_samples is the sum of the
\* batches' leading dimensions, n_samples * H is twice the sum of x x^T,
\* H is symmetric, and H is the H of the session that was fed the same
\* vectors split into calls of one vector each.
C10_SplitIndependent ==
    /\ n_samples = sumLead
    /\ MatScale(H.m, RInt(n_samples)) = MatScale(sumOuter, RInt(2))
    /\ IsSymmetric(H.m)
    /\ H.m = ref.H

\* C10, amended: n_samples is the sum of the batches' leading dimensions
\* (1 for a 2-D input) and never decreases, n_samples * H is twice the sum
\* of x x^T over the observed vectors, H is symmetric, and the product
\* n_samples * H, not H, is the same however the vectors were split.
C10_RunningHessian ==
    /\ [](/\ n_samples = sumLead
          /\ MatScale(H.m, RInt(n_samples)) = MatScale(sumOuter, RInt(2))
          /\ IsSymmetric(H.m)
          /\ MatScale(H.m, RInt(n_samples)) = MatScale(ref.H, RInt(ref.n)))
    /\ [][n_samples' >= n_samples]_vars

C10_Witness ==
    /\ batches >= 2
    /\ n_samples # ref.n
    /\ H.m # ref.H
    /\ \E i \in ColIdx : \E j \in ColIdx : i # j /\ ~RIsZero(H.m[i][j])

\* C11: when a compress call with strategy GROUP commits, every column was
\* quantized with the scale and zero point that every other column of its
\* group was quantized with (so with the pair computed when the group was
\* first met in the scan), and that pair is the one persisted for the group.
C11_GroupParamsStable ==
    (Committed /\ scheme.strategy = "group") =>
        \A r \in RowIdx : \A j \in ColIdx :
            /\ \A k \in ColIdx :
                  last.seen.g_idx[k] = last.seen.g_idx[j] => last.used[r][k] = last.used[r][j]
            /\ last.used[r][j].scale = weight_scale[r][last.seen.g_idx[j]]
            /\ last.used[r][j].zp = weight_zero_point[r][last.seen.g_idx[j]]

\* C12: modify_save_pretrained is idempotent: no call raises; a call on a
\* model whose save_pretrained was already replaced finds the marker and
\* leaves the installed wrapper as it is; and after any number of calls the
\* model's save_pretrained is the original wrapped exactly once.
C12_ModifyIdempotent ==
    /\ \A m \in Models : modified[m] >= 1 => save_pretrained[m].depth = 1
    /\ last.op = "modify_save_pretrained" =>
         /\ last.raised = "none"
         /\ last.before.depth >= 1 =>
              (last.detected /\ save_pretrained[last.model] = last.before)

====
